---- MODULE Spec2Model ----
(***************************************************************************)
(* Job admission, queueing and worker orchestration of the analysis        *)
(* service: the JobQueue state machine over the Redis store                *)
(* (src/src/worker/job_queue.py), the worker loop and process_job          *)
(* (src/src/worker/worker.py), the engine calls (src/src/worker/claude.py) *)
(* and the polling endpoints (src/src/web/main.py).                        *)
(*                                                                         *)
(* The processes share nothing but the store, so an action is the code a   *)
(* process runs from one group of store calls to the next: the engine and  *)
(* webhook calls in between are local to the process and are folded into   *)
(* the step, their outcomes drawn with \E.  Every store, engine and        *)
(* webhook call returns; the 24 h expiry of the keys and the 300 s expiry  *)
(* of the sync_processing counter are not modelled.                        *)
(***************************************************************************)
EXTENDS Integers, Sequences, FiniteSets, TLC

\* ------------------------------------------------------------------ bounds
MaxJobs == 2
NumWorkers == 2
MaxChunks == 2

\* ------------------------------------------------------- program constants
DefaultMaxRetries == 2
WebhookMaxRetries == 3
SmallContentThreshold == 10000
MaxContentSize == 100000
ShortErrorLimit == 200
SuspiciousLimit == 10
NameQuickLimit == 50

JobIds == 1..MaxJobs
Workers == 1..NumWorkers

\* ------------------------------------------------------------------- texts
\* A text is known by what the code asks of it: its stripped length, whether
\* it starts with "[Error processing chunk", whether it contains
\* "Error code:" and whether its lower-case form contains "error".
Text(n, m, c, e) == [len |-> n, marker |-> m, errcode |-> c, errword |-> e]
NoText == Text(0, FALSE, FALSE, FALSE)
TextAnalysis == Text(400, FALSE, FALSE, FALSE)
TextMentionsError == Text(120, FALSE, FALSE, TRUE)
EngineTexts == {TextAnalysis, TextMentionsError}

\* What one call of process_chunk ends with, after its call-site retries:
\* a text, or an exception re-raised to the caller.
EngineFailures == {"timeout", "api_error"}
EngineReturns == [ok : {TRUE}, text : EngineTexts, exc : {"none"}]
EngineRaises(excs) == [ok : {FALSE}, text : {NoText}, exc : excs]

\* The engine of a run of the system: "any" answers or fails call by call,
\* "fail" fails every process call, "timeout" times every process call out.
EngineModes == {"any", "fail", "timeout"}
EngineOutcomes(mode) ==
    IF mode = "timeout" THEN EngineRaises({"timeout"})
    ELSE IF mode = "fail" THEN EngineRaises(EngineFailures)
    ELSE EngineReturns \cup EngineRaises(EngineFailures)

\* str(e)[:200] of the exception: an API error prints "Error code: ...",
\* a timeout prints nothing.
ExcText(exc) == IF exc = "api_error" THEN Text(60, FALSE, TRUE, TRUE) ELSE NoText

ErrorMarker(exc) ==
    Text(28 + ExcText(exc).len, TRUE, ExcText(exc).errcode, TRUE)

\* --------------------------------------------------------------- job record
\* request_data, by the two fields process_job reads: the content, known by
\* the number of fragments chunk_content makes of it, and webhook_url.
Request(c, u) == [chunks |-> c, webhook_url |-> u]

NoJob == [job_id |-> 0, status |-> "none", started |-> FALSE, completed |-> FALSE,
          error_message |-> "none", retry_count |-> 0, max_retries |-> 0,
          request_data |-> Request(0, "")]

AnalysisJob(id, req) ==
    [job_id |-> id, status |-> "pending", started |-> FALSE, completed |-> FALSE,
     error_message |-> "none", retry_count |-> 0, max_retries |-> DefaultMaxRetries,
     request_data |-> req]

\* ------------------------------------------------------------ result record
AnalysisResult(st, text, name, msg, reason) ==
    [status |-> st, analysis_result |-> text, analysis_name |-> name,
     error_message |-> msg, reason |-> reason]
NoResult == AnalysisResult("none", NoText, "none", "none", "none")

VARIABLES
    pending,        \* the list analysis_jobs, head first
    jobData,        \* job_data:{job_id}, NoJob where the key is absent
    processing,     \* the set processing_jobs
    results,        \* result:{job_id}, NoResult where the key is absent
    coda,           \* CODA_WEBHOOK_URL and CODA_API_TOKEN are both set
    engine,         \* how the engine answers process calls in this run
    worker,         \* each worker's position in start/process_job and its locals
    nextId,         \* job ids handed out so far
    handler,        \* per job id: the request handler that made it, "sync" while
                    \* it is in the fast path, then the status it answered
    syncCounter,    \* the counter sync_processing
    penv,           \* PipelineSpec: the inputs of one run of process_job
    pout,           \* PipelineSpec: what that run came to
    rreq,           \* RequestSpec: one POST /request and what its calls end with
    rout,           \* RequestSpec: what start_analysis did with it
    qcall,          \* QueueSpec: one call of a JobQueue method, its argument
                    \* and what it returned
    wposts,         \* WebhookSpec: what the POSTs of a delivery end with
    wout,           \* WebhookSpec: what the two senders did with them
    cin,            \* ChunkSpec: the content and the prompt of one chunk_content call
    cout,           \* ChunkSpec: what that call returned
    ptrace,         \* PipelineSpec: the engine calls and the sleeps of the run
    notified,       \* NotifySpec: per job id and push target, the notifications
                    \* of the job the target has accepted
    running         \* per worker: self.running, cleared by the signal handler

store == <<pending, jobData, processing, results>>
web == <<nextId, handler, syncCounter>>
probe == <<penv, pout, rreq, rout, qcall, wposts, wout, cin, cout, ptrace, notified>>
vars == <<pending, jobData, processing, results, coda, engine, running, worker,
          nextId, handler, syncCounter, penv, pout,
          rreq, rout, qcall, wposts, wout, cin, cout, ptrace, notified>>

\* -------------------------------------------------------------- Queue Store
\* lpush puts at the head, brpop takes from the tail, in one atomic command.
\* Mutant: the push goes to the end brpop takes from.
RPush(list, id) == Append(list, id)

LPush(list, id) == <<id>> \o list
BRPopId(list) == list[Len(list)]
\* Mutant: the pop reads the tail and leaves it on the list.
BRPopRestKeep(list) == list
BRPopRest(list) == SubSeq(list, 1, Len(list) - 1)

\* ----------------------------------------------------------------- JobQueue
\* Mutant: dequeue_job does not stamp started_at.
MarkProcessingNoStamp(job) == [job EXCEPT !.status = "processing"]

MarkProcessing(job) == [job EXCEPT !.status = "processing", !.started = TRUE]

MarkCompleted(job) == [job EXCEPT !.completed = TRUE]

\* Mutant: fail_job drops the message.
MarkFailedNoMessage(job, message) ==
    [job EXCEPT !.status = "failed", !.completed = TRUE]

MarkFailed(job, message) ==
    [job EXCEPT !.status = "failed", !.error_message = message, !.completed = TRUE]

\* Mutant: retry_job never refuses.
RetryAllowedAlways(job) == job.retry_count >= 0

RetryAllowed(job) == job.retry_count < job.max_retries

\* Mutant: the retry does not count itself.
MarkRetriedKeepCount(job) ==
    [job EXCEPT !.status = "pending", !.started = FALSE, !.error_message = "none"]

MarkRetried(job) ==
    [job EXCEPT !.retry_count = @ + 1, !.status = "pending",
                !.started = FALSE, !.error_message = "none"]

EnqueueJob(job) ==
    /\ jobData' = [jobData EXCEPT ![job.job_id] = job]
    /\ pending' = LPush(pending, job.job_id)

\* Mutant: complete_job leaves the id in the processing set.
CompleteJobKeepsProcessing(job) ==
    /\ jobData' = [jobData EXCEPT ![job.job_id] = MarkCompleted(job)]
    /\ UNCHANGED <<pending, processing>>

CompleteJob(job) ==
    /\ jobData' = [jobData EXCEPT ![job.job_id] = MarkCompleted(job)]
    /\ processing' = processing \ {job.job_id}
    /\ UNCHANGED pending

FailJob(job, message) ==
    /\ jobData' = [jobData EXCEPT ![job.job_id] = MarkFailed(job, message)]
    /\ processing' = processing \ {job.job_id}
    /\ UNCHANGED pending

\* result.json(): the members of the document in field order, a None field
\* written as null (here the empty sequence), any other as its value.
JsonOptional(v, none) == IF v = none THEN <<>> ELSE <<v>>
ResultJson(r) ==
    <<r.status, JsonOptional(r.analysis_result, NoText),
      JsonOptional(r.analysis_name, "none"), JsonOptional(r.error_message, "none"),
      r.reason>>

\* Mutant: a null error_message is read back as the empty string.
ParseResultNullAsEmpty(doc) ==
    AnalysisResult(doc[1],
                   IF doc[2] = <<>> THEN NoText ELSE doc[2][1],
                   IF doc[3] = <<>> THEN "none" ELSE doc[3][1],
                   IF doc[4] = <<>> THEN "" ELSE doc[4][1],
                   doc[5])

\* AnalysisResult.parse_raw of such a document.
ParseResult(doc) ==
    AnalysisResult(doc[1],
                   IF doc[2] = <<>> THEN NoText ELSE doc[2][1],
                   IF doc[3] = <<>> THEN "none" ELSE doc[3][1],
                   IF doc[4] = <<>> THEN "none" ELSE doc[4][1],
                   doc[5])

\* Mutant: the SETEX of store_result is lost.
StoreResultDropped(id, r) == results' = results

\* store_result: results keeps, per key, the document as get_job_result
\* parses it.
StoreResult(id, r) == results' = [results EXCEPT ![id] = ParseResult(ResultJson(r))]

GetJobResult(id) == results[id]

RetryJob(job) ==
    IF ~RetryAllowed(job)
    THEN UNCHANGED <<pending, jobData, processing>>
    ELSE /\ EnqueueJob(MarkRetried(job))
         /\ UNCHANGED processing

\* The command of enqueue_job that a failing store refuses.
StoreFaults == {"setex", "lpush"}

\* enqueue_job on a store that refuses a command: the exception is caught
\* inside enqueue_job, which returns False; a refused setex leaves the store
\* as it was, a refused lpush leaves the record written and the id not pushed.
EnqueueJobRefused(job, fault) ==
    /\ jobData' = IF fault = "lpush" THEN [jobData EXCEPT ![job.job_id] = job]
                  ELSE jobData
    /\ pending' = pending

\* retry_job on such a store: the return value of enqueue_job is not read.
RetryJobRefused(job, fault) ==
    IF ~RetryAllowed(job)
    THEN UNCHANGED <<pending, jobData, processing>>
    ELSE /\ EnqueueJobRefused(MarkRetried(job), fault)
         /\ UNCHANGED processing

\* What retry_job returns, and the job object of the caller after the call.
RetryJobReturns(job) == IF RetryAllowed(job) THEN "true" ELSE "false"
RetryJobObject(job) == IF RetryAllowed(job) THEN MarkRetried(job) ELSE job

\* ---------------------------------------------------------------- claude.py
\* process_chunks_sequential: the text of each chunk in order, an error
\* marker where the call raised.
ProcessChunksSequential(outs) ==
    [k \in 1..Len(outs) |-> IF outs[k].ok THEN outs[k].text ELSE ErrorMarker(outs[k].exc)]

InterChunkDelay == 2

\* A step of process_chunks_sequential: the process_chunk call of a chunk, or
\* the sleep that follows it.
Call(i) == [op |-> "call", chunk |-> i, secs |-> 0]
Sleep(i) == [op |-> "sleep", chunk |-> i, secs |-> InterChunkDelay]

\* Mutant: the loop ends at the first chunk whose call raises.
RECURSIVE ChunkCallsStopAtFailure(_, _)
ChunkCallsStopAtFailure(outs, i) ==
    IF i > Len(outs) THEN <<>>
    ELSE IF ~outs[i].ok THEN <<Call(i)>>
    ELSE <<Call(i)>> \o (IF i < Len(outs) THEN <<Sleep(i)>> ELSE <<>>)
                    \o ChunkCallsStopAtFailure(outs, i + 1)

\* The calls and sleeps of process_chunks_sequential from chunk i on, in the
\* order they are made: the sleep is inside the try block, after the call
\* has returned.
RECURSIVE ChunkCalls(_, _)
ChunkCalls(outs, i) ==
    IF i > Len(outs) THEN <<>>
    ELSE <<Call(i)>> \o (IF outs[i].ok /\ i < Len(outs) THEN <<Sleep(i)>> ELSE <<>>)
                    \o ChunkCalls(outs, i + 1)

GateOutcomes == {"interactive", "SUCCESS", "FAILED", "other", "timeout", "error"}

\* Mutant: a gate that cannot answer fails the analysis.
AssessQualityFailClosed(o) ==
    IF o \in {"FAILED", "timeout", "error"} THEN "FAILED" ELSE "SUCCESS"

AssessQuality(o) == IF o = "FAILED" THEN "FAILED" ELSE "SUCCESS"

NameOutcomes == {"title", "empty", "timeout", "error"}

NameQuickCheck(t) == t.marker \/ t.errcode \/ t.len < NameQuickLimit

NameRaises(t, o) == ~NameQuickCheck(t) /\ o = "error"

GenerateAnalysisName(t, o) ==
    IF NameQuickCheck(t) THEN "Processing Error"
    ELSE IF o = "title" THEN "Generated Title"
    ELSE "AI Analysis Result"

ConsistencyOutcomes ==
    [ok : {TRUE}, text : {TextAnalysis, NoText}] \cup [ok : {FALSE}, text : {NoText}]

EnsureFormatConsistency(combined, o) == IF o.ok THEN o.text ELSE combined

\* --------------------------------------------------------------- worker.py
RECURSIVE SumLen(_)
SumLen(rs) == IF rs = <<>> THEN 0 ELSE Head(rs).len + SumLen(Tail(rs))

IsErrorText(r) ==
    \/ r.marker
    \/ r.errcode
    \/ (r.errword /\ r.len < ShortErrorLimit)
    \/ r.len < SuspiciousLimit

HasProcessingErrors(rs) == \E k \in 1..Len(rs) : IsErrorText(rs[k])

CombineChunkResults(rs) ==
    IF Len(rs) = 1 THEN rs[1]
    ELSE Text(SumLen(rs) + 2 * (Len(rs) - 1), rs[1].marker,
              \E k \in 1..Len(rs) : rs[k].errcode,
              \E k \in 1..Len(rs) : rs[k].errword)

\* error_message is "Analysis failed during processing: ..." and never empty.
ProcessingErrorResult ==
    AnalysisResult("FAILED", NoText, "Processing Error", "processing", "processing_error")

\* error_message of a Result the quality gate failed is the combined text.
QualityResult(status, combined, name) ==
    AnalysisResult(status, combined,
                   IF status = "FAILED" THEN "Quality Check Failed" ELSE name,
                   IF status # "FAILED" THEN "none"
                   ELSE IF combined.len = 0 THEN "" ELSE "response",
                   "quality")

JobErrorResult == AnalysisResult("FAILED", NoText, "none", "job_error", "error")

\* The inputs of one run of process_job: what each call it may make ends with.
PipelineEnvs(n, mode) ==
    [chunks : [1..n -> EngineOutcomes(mode)], cons : ConsistencyOutcomes,
     gate : GateOutcomes, name : NameOutcomes]

\* process_job from chunking to the Result it builds (lines 99-173): the
\* Result, or raised when a call let an exception out of the try block;
\* gate_called and name_called tell which secondary calls were made.
Pipeline(env) ==
    LET rs == ProcessChunksSequential(env.chunks)
        combined0 == CombineChunkResults(rs)
        combined == IF Len(rs) > 1 THEN EnsureFormatConsistency(combined0, env.cons)
                    ELSE combined0
        quality_status == AssessQuality(env.gate)
        name == GenerateAnalysisName(combined, env.name)
    IN IF HasProcessingErrors(rs)
       THEN [raised |-> FALSE, final_result |-> ProcessingErrorResult,
             gate_called |-> FALSE, name_called |-> FALSE]
       ELSE IF NameRaises(combined, env.name)
       THEN [raised |-> TRUE, final_result |-> NoResult,
             gate_called |-> TRUE, name_called |-> TRUE]
       ELSE [raised |-> FALSE,
             final_result |-> QualityResult(quality_status, combined, name),
             gate_called |-> TRUE, name_called |-> ~NameQuickCheck(combined)]

NoEnv == [chunks |-> <<>>, cons |-> [ok |-> FALSE, text |-> NoText],
          gate |-> "none", name |-> "none"]
NoOutput == [raised |-> FALSE, final_result |-> NoResult,
             gate_called |-> FALSE, name_called |-> FALSE]

\* What a run of process_job over n chunks can come to, over all its inputs.
PipelineOutputs ==
    [n \in 1..MaxChunks, mode \in EngineModes |->
        {Pipeline(env) : env \in PipelineEnvs(n, mode)}]

\* ----------------------------------------------------------------- webhooks
WebhookOutcomes == {200, 202, 204, 500, 0}      \* 0: the POST raised

CodaAccepts(status) == status \in {200, 202}
LegacyAccepts(status) == status = 200

Accepts(kind, status) ==
    IF kind = "coda" THEN CodaAccepts(status) ELSE LegacyAccepts(status)

\* Mutant: the sender sleeps after its last attempt too.
BackoffAfterAlways(attempt) == <<(2 ^ attempt) * 2>>

\* The sleep after a failed attempt: none after the last one.
BackoffAfter(attempt) ==
    IF attempt < WebhookMaxRetries - 1 THEN <<(2 ^ attempt) * 2>> ELSE <<>>

\* The attempt loop of both senders from attempt on (attempt counts from 0 as
\* range(max_retries) does): posts[k] is what the k-th POST ends with if it
\* is made, waits the sleeps so far.  The outcome: whether the sender
\* returns True, the POSTs it made and the sleeps it took.
RECURSIVE WebhookLoop(_, _, _, _)
WebhookLoop(kind, posts, attempt, waits) ==
    IF attempt >= WebhookMaxRetries
    THEN [ok |-> FALSE, posted |-> attempt, waits |-> waits]
    ELSE IF Accepts(kind, posts[attempt + 1])
    THEN [ok |-> TRUE, posted |-> attempt + 1, waits |-> waits]
    ELSE WebhookLoop(kind, posts, attempt + 1, waits \o BackoffAfter(attempt))

\* A delivery: POSTs until one is accepted, at most max_retries of them.
SendCodaWebhookNotification(posts) == WebhookLoop("coda", posts, 0, <<>>).ok
SendLegacyWebhook(posts) == WebhookLoop("legacy", posts, 0, <<>>).ok

WebhookPosts == [1..WebhookMaxRetries -> WebhookOutcomes]
NoPosts == [k \in 1..WebhookMaxRetries |-> 0]
Senders == {"coda", "legacy"}
NoDelivery == [ok |-> FALSE, posted |-> 0, waits |-> <<>>]
NoDeliveries == [kind \in Senders |-> NoDelivery]
CodaDeliveries == {SendCodaWebhookNotification(posts) : posts \in WebhookPosts}
LegacyDeliveries == {SendLegacyWebhook(posts) : posts \in WebhookPosts}

\* Mutant: the empty webhook_url counts as a target.
HasLegacyWebhookAlways(job) == job.job_id >= 0

HasLegacyWebhook(job) == job.request_data.webhook_url # ""

\* Mutant: the worker's retry test is off by one.
WorkerMayRetryOffByOne(job) == job.retry_count <= job.max_retries

WorkerMayRetry(job) == job.retry_count < job.max_retries

IdleWorker == [pc |-> "idle", job |-> NoJob, webhook_success |-> TRUE]

\* "Analysis worker stopped": the loop of start has ended.
StoppedWorker == [IdleWorker EXCEPT !.pc = "stopped"]

\* Mutant: the loop of start does not read self.running.
LoopTopDeaf(w) == IdleWorker

\* The test of "while self.running" that follows an iteration of the loop: the
\* worker calls dequeue_job again or leaves the loop.
LoopTop(w) == IF running[w] THEN IdleWorker ELSE StoppedWorker

\* No JobQueue method called.
NoCall == [op |-> "none", job |-> NoJob, after |-> NoJob, ret |-> "none",
           id |-> 0, result |-> NoResult]

\* No request made, nothing answered.
NoRequest == [content |-> [len |-> 0, file |-> "none", chunks |-> 1], env |-> "none"]
NoAnswer == [answer |-> "none", result |-> NoResult, job |-> NoJob,
             enqueued |-> FALSE, fast_path |-> FALSE, incrs |-> 0, decrs |-> 0]

\* -------------------------------------------------------------- chunking.py
MaxTokens == 11000
SingleChunkThreshold == 150000
DefaultPromptTokens == 1000
SafetyBuffer == 500
MultiChunkBudget == 25000
MinContentSpace == 1000
CharsPerToken == 4
\* Tokens the "\n\n" between two joined units encodes to.
SeparatorTokens == 1
FallbackChunkSize == MaxTokens * CharsPerToken

\* A content as the chunker sees it: the blocks it splits into, each with the
\* tokens it encodes to and the number of sentence groups it falls into when
\* it is split by sentences (none when it holds no sentence text), and
\* whether the text holds a special token of the encoding, which encode
\* refuses with an exception. A content without blocks is the empty string.
\* A prompt is its token count, 0 for the empty string, and the same flag.
MaxBlocks == 3
MaxPieces == 2
BlockTokens == {9000, 20000, 160000}
PromptTokens == {0, 2000, 6500, 24000, 149500}
Blocks == [tokens : BlockTokens, pieces : 0..MaxPieces, bracket : BOOLEAN]
BlockSeqs == UNION {[1..n -> Blocks] : n \in 0..MaxBlocks}
ChunkContents == {c \in [blocks : BlockSeqs, special : BOOLEAN] :
                      c.special => c.blocks # <<>>}
ChunkPrompts == {q \in [tokens : PromptTokens, special : BOOLEAN] :
                     q.special => q.tokens > 0}

RECURSIVE TokensOf(_)
TokensOf(blocks) ==
    IF blocks = <<>> THEN 0 ELSE Head(blocks).tokens + TokensOf(Tail(blocks))

\* len(content), by the chunker's own estimate of four characters a token.
ContentLen(content) == TokensOf(content.blocks) * CharsPerToken

\* The places of the units of a content, first to last.
AllUnits(content) == [i \in 1..Len(content.blocks) |-> i]

\* A fragment of the returned list: the whole content, a group of blocks, a
\* group of sentences of one block, or a slice of characters; units are the
\* places in the content of the text it holds.
Fragment(kind, from, size, units) ==
    [kind |-> kind, from |-> from, size |-> size, units |-> units]

\* for i in range(0, len(content), chunk_size): content[i:i + chunk_size]
SimpleFallbackChunking(len) ==
    [k \in 1..((len + FallbackChunkSize - 1) \div FallbackChunkSize) |->
        Fragment("slice", (k - 1) * FallbackChunkSize,
                 IF len - (k - 1) * FallbackChunkSize < FallbackChunkSize
                 THEN len - (k - 1) * FallbackChunkSize
                 ELSE FallbackChunkSize, <<>>)]

\* The sentence groups of a block over the limit; the list is empty when the
\* block has no sentence text.
ChunkBySentences(block) ==
    [k \in 1..block.pieces |->
        Fragment("sentences", 0, block.tokens \div block.pieces, <<block.at>>)]

\* A block has no blank line inside: it is the one paragraph of the call.
ChunkByParagraphs(block, max_tokens) ==
    LET chunks == IF block.tokens > max_tokens
                  THEN ChunkBySentences(block)
                  ELSE <<Fragment("blocks", 0, block.tokens, <<block.at>>)>>
    IN IF chunks # <<>> THEN chunks
       ELSE <<Fragment("whole", 0, block.tokens, <<block.at>>)>>

\* A unit of the content with its place in it.
Placed(content, i) ==
    [tokens |-> content.blocks[i].tokens, pieces |-> content.blocks[i].pieces, at |-> i]

\* re.findall(r'<([^<>]+?)>'): when the content has bracketed text the blocks
\* are the bracketed units alone; else its paragraphs; [content] when it has
\* none.
ExtractContentBlocks(content) ==
    LET n == Len(content.blocks)
        matches == SelectSeq([i \in 1..n |-> i], LAMBDA i : content.blocks[i].bracket)
    IN IF matches # <<>>
       THEN [k \in 1..Len(matches) |-> Placed(content, matches[k])]
       ELSE IF n > 0
       THEN [i \in 1..n |-> Placed(content, i)]
       ELSE <<[tokens |-> 0, pieces |-> 0, at |-> 0]>>

\* The loop of _chunk_content_by_tokens with its final append; current_chunk
\* is non-empty exactly when current_tokens is positive.
RECURSIVE GroupBlocks(_, _, _, _, _)
GroupBlocks(blocks, max_tokens, chunks, current_tokens, current_units) ==
    LET saved == IF current_tokens > 0
                 THEN Append(chunks, Fragment("blocks", 0, current_tokens, current_units))
                 ELSE chunks
    IN IF blocks = <<>> THEN saved
       ELSE LET block_tokens == Head(blocks).tokens
            IN IF block_tokens > max_tokens
               THEN GroupBlocks(Tail(blocks), max_tokens,
                                saved \o ChunkByParagraphs(Head(blocks), max_tokens),
                                0, <<>>)
               ELSE IF current_tokens + block_tokens > max_tokens /\ current_tokens > 0
               THEN GroupBlocks(Tail(blocks), max_tokens, saved, block_tokens,
                                <<Head(blocks).at>>)
               ELSE GroupBlocks(Tail(blocks), max_tokens, chunks,
                                current_tokens + block_tokens,
                                Append(current_units, Head(blocks).at))

ChunkContentByTokens(content, max_content_tokens) ==
    LET chunks == GroupBlocks(ExtractContentBlocks(content), max_content_tokens,
                              <<>>, 0, <<>>)
    IN IF chunks # <<>> THEN chunks
       ELSE <<Fragment("whole", 0, TokensOf(content.blocks), AllUnits(content))>>

\* encode raises on either text: the except block of chunk_content is entered.
EncodeFails(content, prompt) == content.special \/ (prompt.tokens > 0 /\ prompt.special)

\* chunk_content: every exception of the try block is caught and the fallback
\* on a string raises nothing, so the call always returns a list.
ChunkContent(content, prompt) ==
    IF EncodeFails(content, prompt)
    THEN [raised |-> FALSE, failed |-> TRUE,
          chunks |-> SimpleFallbackChunking(ContentLen(content))]
    ELSE LET content_tokens == TokensOf(content.blocks)
             prompt_tokens == IF prompt.tokens > 0 THEN prompt.tokens
                              ELSE DefaultPromptTokens
             total_tokens == content_tokens + prompt_tokens + SafetyBuffer
             available_tokens == MultiChunkBudget - prompt_tokens - SafetyBuffer
         IN [raised |-> FALSE, failed |-> FALSE,
             chunks |-> IF total_tokens < SingleChunkThreshold
                        THEN <<Fragment("whole", 0, content_tokens, AllUnits(content))>>
                        ELSE ChunkContentByTokens(content,
                                 IF available_tokens <= MinContentSpace
                                 THEN MinContentSpace ELSE available_tokens)]

\* No chunk_content call made, nothing returned.
NoChunkInput == [content |-> [blocks |-> <<>>, special |-> FALSE],
                 prompt |-> [tokens |-> 0, special |-> FALSE], called |-> FALSE]
NoChunks == [raised |-> FALSE, failed |-> FALSE, chunks |-> <<>>, returned |-> FALSE]

\* No target has accepted a notification.
NoNotifications == [coda |-> 0, legacy |-> 0]

StoreInit ==
    /\ pending = <<>>
    /\ jobData = [j \in JobIds |-> NoJob]
    /\ processing = {}
    /\ results = [j \in JobIds |-> NoResult]
    /\ coda \in BOOLEAN
    /\ engine \in EngineModes
    /\ worker = [w \in Workers |-> IdleWorker]
    /\ running = [w \in Workers |-> TRUE]
    /\ nextId = 0
    /\ handler = [j \in JobIds |-> "none"]
    /\ syncCounter = 0
    /\ notified = [j \in JobIds |-> NoNotifications]

Init ==
    /\ StoreInit
    /\ penv = NoEnv
    /\ pout = NoOutput
    /\ rreq = NoRequest
    /\ rout = NoAnswer
    /\ qcall = NoCall
    /\ wposts = NoPosts
    /\ wout = NoDeliveries
    /\ cin = NoChunkInput /\ cout = NoChunks
    /\ ptrace = <<>>

\* POST /analyze: process_analysis queues a job that carries a webhook_url.
ProcessAnalysis ==
    /\ nextId < MaxJobs
    /\ \E c \in 1..MaxChunks :
         /\ EnqueueJob(AnalysisJob(nextId + 1, Request(c, "hook")))
         /\ nextId' = nextId + 1
         /\ handler' = [handler EXCEPT ![nextId + 1] = "queued"]
    /\ UNCHANGED <<processing, results, coda, engine, running, worker, syncCounter, probe>>

\* dequeue_job returns a job and process_job starts.
DequeueJob(w) ==
    /\ worker[w].pc = "idle"
    /\ pending # <<>>
    /\ LET id == BRPopId(pending)
           job == MarkProcessing(jobData[id])
       IN /\ pending' = BRPopRest(pending)
          /\ jobData' = [jobData EXCEPT ![id] = job]
          /\ processing' = processing \cup {id}
          /\ worker' = [worker EXCEPT ![w] = [IdleWorker EXCEPT !.pc = "process", !.job = job]]
    /\ UNCHANGED <<results, coda, engine, running, web, probe>>

\* brpop found the list empty until its timeout: dequeue_job returns None and
\* the worker sleeps and asks again.
DequeueTimeout(w) ==
    /\ worker[w].pc = "idle"
    /\ pending = <<>>
    /\ worker' = [worker EXCEPT ![w] = LoopTop(w)]
    /\ UNCHANGED <<store, coda, engine, running, web, probe>>

\* _signal_handler, run when SIGTERM or SIGINT reaches the worker, wherever the
\* worker is: inside the blocking brpop of dequeue_job, inside process_job, or
\* between two statements of the loop.
SignalHandler(w) ==
    /\ worker[w].pc # "stopped"
    /\ running[w]
    /\ running' = [running EXCEPT ![w] = FALSE]
    /\ UNCHANGED <<store, coda, engine, worker, web, probe>>

\* process_job up to its first store call: store_result with the Result of
\* the run, or, when the run raised, retry_job or fail_job of the except block.
RunPipeline(w) ==
    /\ worker[w].pc = "process"
    /\ LET me == worker[w]
           id == me.job.job_id
       IN \E out \in PipelineOutputs[me.job.request_data.chunks, engine] :
               IF ~out.raised
               THEN /\ StoreResult(id, out.final_result)
                    /\ worker' = [worker EXCEPT ![w].pc = "deliver"]
                    /\ UNCHANGED <<pending, jobData, processing>>
               ELSE IF WorkerMayRetry(me.job)
               THEN /\ RetryJob(me.job)
                    /\ worker' = [worker EXCEPT ![w] = LoopTop(w)]
                    /\ UNCHANGED results
               ELSE /\ FailJob(me.job, "Job processing failed")
                    /\ worker' = [worker EXCEPT ![w].pc = "error_store",
                                                ![w].job = MarkFailed(@, "Job processing failed")]
                    /\ UNCHANGED results
    /\ UNCHANGED <<coda, engine, running, web, probe>>

\* The notification webhook and the webhook of the request, each tried up to
\* max_retries times.
DeliverWebhooks(w) ==
    /\ worker[w].pc = "deliver"
    /\ \E cd \in CodaDeliveries, ld \in LegacyDeliveries :
         LET me == worker[w]
             coda_ok == ~coda \/ cd
             legacy_ok == ~HasLegacyWebhook(me.job) \/ ld
         IN worker' = [worker EXCEPT ![w].pc = "finish",
                                     ![w].webhook_success = coda_ok /\ legacy_ok]
    /\ UNCHANGED <<store, coda, engine, running, web, probe>>

\* "Complete or retry job based on webhook success".
Finish(w) ==
    /\ worker[w].pc = "finish"
    /\ LET me == worker[w]
       IN IF me.webhook_success
          THEN CompleteJob([me.job EXCEPT !.status = "success"])
          ELSE IF WorkerMayRetry(me.job)
          THEN RetryJob(me.job)
          ELSE FailJob(me.job, "Webhook delivery failed after max retries")
    /\ worker' = [worker EXCEPT ![w] = LoopTop(w)]
    /\ UNCHANGED <<results, coda, engine, running, web, probe>>

\* Mutant: the except block forgets the error Result.
StoreErrorResultSkip(w) ==
    /\ worker[w].pc = "error_store"
    /\ worker' = [worker EXCEPT ![w] = LoopTop(w)]
    /\ UNCHANGED <<store, coda, engine, running, web, probe>>

\* The except block after fail_job: the error Result is stored, then the
\* failure notification is tried and its outcome dropped.
StoreErrorResult(w) ==
    /\ worker[w].pc = "error_store"
    /\ StoreResult(worker[w].job.job_id, JobErrorResult)
    /\ worker' = [worker EXCEPT ![w] = LoopTop(w)]
    /\ UNCHANGED <<pending, jobData, processing, coda, engine, running, web, probe>>

\* ------------------------------------------------------------------ main.py
\* The reconstructed content of a PollingRequest: its length, whether it
\* holds "FILE_URL:" (with or without a valid URL behind it) and the number
\* of fragments chunk_content makes of it with the request's prompt.
ContentLens == {0, 500, 9999, 10000, 15000, 100001}
PollingContents ==
    [len : ContentLens, file : {"none", "invalid", "valid"}, chunks : 1..MaxChunks]

Rejected(c) == c.len = 0 \/ c.len > MaxContentSize

\* Mutant: only a reference with a valid URL makes a file request.
IsFileRequestValidOnly(c) == c.file = "valid"
IsFileRequest(c) == c.file # "none"
HasFileUrls(c) == c.file = "valid"

\* Mutant: the size alone opens the fast path.
SyncEligibleBySize(c) == c.len < SmallContentThreshold

SyncEligible(c) == c.len < SmallContentThreshold /\ c.chunks = 1

\* The inputs of one fast-path attempt: the three calls and whether the
\* overall timeout fires at one of them.
SyncEnvs(mode) ==
    [chunk : EngineOutcomes(mode), gate : GateOutcomes, name : NameOutcomes,
     timeout : BOOLEAN]

\* The way a fast-path attempt leaves lines 150-228: "timeout" through the
\* handler of the overall timeout, "error" through the inner except block,
\* "quality_failed" and "complete" through the two returns.
\* Mutant: the overall timeout never fires.
SyncExitIgnoresTimeout(env) ==
    IF ~env.chunk.ok \/ NameRaises(env.chunk.text, env.name) THEN "error"
    ELSE IF AssessQuality(env.gate) = "FAILED" THEN "quality_failed"
    ELSE "complete"

SyncExit(env) ==
    IF env.timeout THEN "timeout"
    ELSE IF ~env.chunk.ok \/ NameRaises(env.chunk.text, env.name) THEN "error"
    ELSE IF AssessQuality(env.gate) = "FAILED" THEN "quality_failed"
    ELSE "complete"

\* Mutant: the handler of the overall timeout leaves the counter alone.
SyncDecrementsLeak(exit) == IF exit = "timeout" THEN 0 ELSE 1

\* The decr calls on each way out: line 162 before the two returns, line 215
\* in the inner except block, line 221 in the timeout handler.
SyncDecrements(exit) ==
    IF exit \in {"complete", "quality_failed"} THEN 1
    ELSE IF exit = "error" THEN 1
    ELSE 1

\* Lines 150-228: the Result stored and the status answered, or "fallback"
\* when the attempt is given up and the request goes to the queue.
SyncAttempt(env) ==
    LET text == env.chunk.text
        name == GenerateAnalysisName(text, env.name)
        exit == SyncExit(env)
    IN IF exit \in {"timeout", "error"}
       THEN [answer |-> "fallback", result |-> NoResult,
             decrements |-> SyncDecrements(exit)]
       ELSE IF exit = "quality_failed"
       THEN [answer |-> "failed",
             result |-> AnalysisResult("FAILED", text, "Quality Check Failed",
                                       IF text.len = 0 THEN "" ELSE "response", "sync"),
             decrements |-> SyncDecrements(exit)]
       ELSE [answer |-> "complete",
             result |-> AnalysisResult("SUCCESS", text, name, "none", "sync"),
             decrements |-> SyncDecrements(exit)]

SyncOutputs == [mode \in EngineModes |-> {SyncAttempt(env) : env \in SyncEnvs(mode)}]

\* start_analysis from request to answer, as one function of the request and
\* of what the calls of the fast path end with: the status answered
\* ("rejected" for the HTTP 400), the Result and the job it stored, whether it
\* entered the fast path and how often it moved the counter.
HandleRequest(c, env) ==
    LET queued == [NoAnswer EXCEPT !.answer = "processing", !.enqueued = TRUE,
                                   !.job = AnalysisJob(1, Request(c.chunks, ""))]
        a == SyncAttempt(env)
    IN IF Rejected(c) THEN [NoAnswer EXCEPT !.answer = "rejected"]
       ELSE IF IsFileRequest(c)
       THEN IF ~HasFileUrls(c) THEN [NoAnswer EXCEPT !.answer = "failed"] ELSE queued
       ELSE IF ~SyncEligible(c) THEN queued
       ELSE IF a.answer = "fallback"
       THEN [queued EXCEPT !.fast_path = TRUE, !.incrs = 1, !.decrs = a.decrements]
       ELSE [NoAnswer EXCEPT !.answer = a.answer, !.result = a.result,
                             !.fast_path = TRUE, !.incrs = 1, !.decrs = a.decrements]

\* POST /request, up to the first suspension of the fast path or to the answer.
StartAnalysis ==
    /\ nextId < MaxJobs
    /\ \E c \in PollingContents :
         LET id == nextId + 1
             job == AnalysisJob(id, Request(c.chunks, ""))
         IN IF Rejected(c)
            THEN UNCHANGED <<pending, jobData, web>>
            ELSE /\ nextId' = id
                 /\ IF IsFileRequest(c)
                    THEN IF ~HasFileUrls(c)
                         THEN /\ handler' = [handler EXCEPT ![id] = "failed"]
                              /\ UNCHANGED <<pending, jobData, syncCounter>>
                         ELSE /\ EnqueueJob(job)
                              /\ handler' = [handler EXCEPT ![id] = "processing"]
                              /\ UNCHANGED syncCounter
                    ELSE IF SyncEligible(c)
                         THEN /\ syncCounter' = syncCounter + 1
                              /\ handler' = [handler EXCEPT ![id] = "sync"]
                              /\ UNCHANGED <<pending, jobData>>
                         ELSE /\ EnqueueJob(job)
                              /\ handler' = [handler EXCEPT ![id] = "processing"]
                              /\ UNCHANGED syncCounter
    /\ UNCHANGED <<processing, results, coda, engine, running, worker, probe>>

\* Mutant: the fast path stores its Result and goes on to the queue.
SyncProcessFallsThrough(j) ==
    /\ handler[j] = "sync"
    /\ \E out \in SyncOutputs[engine] :
         /\ syncCounter' = syncCounter - out.decrements
         /\ EnqueueJob(AnalysisJob(j, Request(1, "")))
         /\ handler' = [handler EXCEPT ![j] = "processing"]
         /\ IF out.answer = "fallback" THEN UNCHANGED results
            ELSE StoreResult(j, out.result)
    /\ UNCHANGED <<processing, coda, engine, running, worker, nextId, probe>>

\* The fast path from its engine call to the answer of start_analysis.
SyncProcess(j) ==
    /\ handler[j] = "sync"
    /\ \E out \in SyncOutputs[engine] :
         /\ syncCounter' = syncCounter - out.decrements
         /\ IF out.answer = "fallback"
               THEN /\ EnqueueJob(AnalysisJob(j, Request(1, "")))
                    /\ handler' = [handler EXCEPT ![j] = "processing"]
                    /\ UNCHANGED results
               ELSE /\ StoreResult(j, out.result)
                    /\ handler' = [handler EXCEPT ![j] = out.answer]
                    /\ UNCHANGED <<pending, jobData>>
    /\ UNCHANGED <<processing, coda, engine, running, worker, nextId, probe>>

\* GET /response/{job_id}: the stored Result first, then the job record.
PollResponse(j) ==
    LET result == GetJobResult(j)
        bare == [status |-> "none", error_message |-> "none",
                 analysis_result |-> NoText, analysis_name |-> "none"]
    IN IF result # NoResult
       THEN [status |-> IF result.status = "SUCCESS" THEN "complete" ELSE "failed",
             error_message |-> result.error_message,
             analysis_result |-> result.analysis_result,
             analysis_name |-> result.analysis_name]
       ELSE IF jobData[j] = NoJob
       THEN [bare EXCEPT !.status = "not_found", !.error_message = "Job not found"]
       ELSE IF jobData[j].status = "success"
       THEN [bare EXCEPT !.status = "failed",
                         !.error_message = "Analysis completed but result data not found"]
       ELSE IF jobData[j].status = "failed"
       THEN [bare EXCEPT !.status = "failed",
                         !.error_message = IF jobData[j].error_message \in {"none", ""}
                                           THEN "Analysis failed"
                                           ELSE jobData[j].error_message]
       ELSE [bare EXCEPT !.status = "processing"]

\* A poll reads the store and changes nothing.
GetAnalysisResult(j) ==
    /\ PollResponse(j).status \in {"complete", "failed", "processing", "not_found"}
    /\ UNCHANGED vars

WorkerStep(w) ==
    \/ DequeueJob(w)
    \/ DequeueTimeout(w)
    \/ RunPipeline(w)
    \/ DeliverWebhooks(w)
    \/ Finish(w)
    \/ StoreErrorResult(w)

Next ==
    \/ ProcessAnalysis
    \/ StartAnalysis
    \/ \E j \in JobIds : SyncProcess(j)
    \/ \E j \in JobIds : GetAnalysisResult(j)
    \/ \E w \in Workers : WorkerStep(w)

Spec == Init /\ [][Next]_vars

\* ------------------------------------------------------------- ShutdownSpec
\* The worker processes with the shutdown signal, fed by POST /analyze: each
\* worker may be signalled once, at any point of its loop.
ShutdownInit ==
    /\ Init
    /\ engine = "any"

ShutdownNext ==
    \/ ProcessAnalysis
    \/ \E w \in Workers : WorkerStep(w)
    \/ \E w \in Workers : SignalHandler(w)

ShutdownSpec == ShutdownInit /\ [][ShutdownNext]_vars

\* ----------------------------------------------------------------- LiveSpec
\* One worker keeps running, the other has left its loop, and every call
\* returns: the loop of start comes back to dequeue_job after each iteration,
\* and a worker inside process_job goes on to its next store call, so a worker
\* that can take a step takes one.
LiveNext ==
    \/ ProcessAnalysis
    \/ StartAnalysis
    \/ \E j \in JobIds : SyncProcess(j)
    \/ \E w \in Workers : WorkerStep(w)

LiveInit ==
    /\ pending = <<>>
    /\ jobData = [j \in JobIds |-> NoJob]
    /\ processing = {}
    /\ results = [j \in JobIds |-> NoResult]
    /\ coda \in BOOLEAN
    /\ engine \in EngineModes
    /\ worker = [w \in Workers |-> IF w = 1 THEN IdleWorker ELSE StoppedWorker]
    /\ running = [w \in Workers |-> w = 1]
    /\ nextId = 0
    /\ handler = [j \in JobIds |-> "none"]
    /\ syncCounter = 0
    /\ notified = [j \in JobIds |-> NoNotifications]
    /\ penv = NoEnv /\ pout = NoOutput /\ rreq = NoRequest /\ rout = NoAnswer
    /\ qcall = NoCall /\ wposts = NoPosts /\ wout = NoDeliveries
    /\ cin = NoChunkInput /\ cout = NoChunks /\ ptrace = <<>>

LiveSpec == LiveInit /\ [][LiveNext]_vars /\ \A w \in Workers : WF_vars(WorkerStep(w))

\* --------------------------------------------------------------- NotifySpec
\* The jobs of POST /analyze and the notifications their push targets accept:
\* the delivery step of process_job, with each accepted POST counted for its
\* target (counted up to MaxNotified).
MaxNotified == 2
Counted(n, accepted) == IF accepted /\ n < MaxNotified THEN n + 1 ELSE n

DeliverAndCount(w) ==
    /\ worker[w].pc = "deliver"
    /\ \E cd \in CodaDeliveries, ld \in LegacyDeliveries :
         LET me == worker[w]
             id == me.job.job_id
             coda_ok == ~coda \/ cd
             legacy_ok == ~HasLegacyWebhook(me.job) \/ ld
         IN /\ worker' = [worker EXCEPT ![w].pc = "finish",
                                        ![w].webhook_success = coda_ok /\ legacy_ok]
            /\ notified' = [notified EXCEPT
                   ![id].coda = Counted(@, coda /\ cd),
                   ![id].legacy = Counted(@, HasLegacyWebhook(me.job) /\ ld)]
    /\ UNCHANGED <<store, coda, engine, running, web, penv, pout, rreq, rout, qcall,
                   wposts, wout, cin, cout, ptrace>>

\* One worker runs, the other has left its loop.
NotifyInit ==
    /\ LiveInit
    /\ engine = "any"

NotifyNext ==
    \/ ProcessAnalysis
    \/ \E w \in Workers :
          \/ DequeueJob(w)
          \/ DequeueTimeout(w)
          \/ RunPipeline(w)
          \/ DeliverAndCount(w)
          \/ Finish(w)
          \/ StoreErrorResult(w)

NotifySpec == NotifyInit /\ [][NotifyNext]_vars

\* ------------------------------------------------------------- PipelineSpec
\* One run of process_job on its own: the inputs are drawn at the start and
\* the run is applied to them.
PipelineInit ==
    /\ StoreInit
    /\ rreq = NoRequest
    /\ rout = NoAnswer
    /\ qcall = NoCall
    /\ wposts = NoPosts
    /\ wout = NoDeliveries
    /\ cin = NoChunkInput /\ cout = NoChunks
    /\ ptrace = <<>>
    /\ penv \in UNION {PipelineEnvs(n, "any") : n \in 1..MaxChunks}
    /\ pout = NoOutput

ApplyPipeline ==
    /\ pout = NoOutput
    /\ pout' = Pipeline(penv)
    /\ ptrace' = ChunkCalls(penv.chunks, 1)
    /\ UNCHANGED <<store, coda, engine, running, worker, web, penv, rreq, rout, qcall,
                   wposts, wout, cin, cout, notified>>

PipelineNext == ApplyPipeline

PipelineSpec == PipelineInit /\ [][PipelineNext]_vars

\* -------------------------------------------------------------- RequestSpec
\* One call of start_analysis on its own: the request and the outcomes of the
\* calls are drawn at the start and the handler is applied to them.
RequestInit ==
    /\ StoreInit
    /\ penv = NoEnv
    /\ pout = NoOutput
    /\ rreq \in [content : PollingContents, env : SyncEnvs("any")]
    /\ rout = NoAnswer
    /\ qcall = NoCall
    /\ wposts = NoPosts
    /\ wout = NoDeliveries
    /\ cin = NoChunkInput /\ cout = NoChunks
    /\ ptrace = <<>>

ApplyRequest ==
    /\ rout = NoAnswer
    /\ rout' = HandleRequest(rreq.content, rreq.env)
    /\ UNCHANGED <<store, coda, engine, running, worker, web, penv, pout, rreq, qcall,
                   wposts, wout, cin, cout, ptrace, notified>>

RequestNext == ApplyRequest

RequestSpec == RequestInit /\ [][RequestNext]_vars

\* ---------------------------------------------------------------- QueueSpec
\* One call of a JobQueue method on its own: a store and a job object are
\* drawn at the start and the method is applied to them.
MaxRetryCount == 3

JobObjects ==
    {[AnalysisJob(1, Request(1, "")) EXCEPT !.status = st, !.started = TRUE,
                                            !.retry_count = rc, !.max_retries = mr,
                                            !.error_message = msg] :
        st \in {"processing", "failed"}, rc \in 0..MaxRetryCount,
        mr \in 0..DefaultMaxRetries, msg \in {"none", "Job processing failed"}}

\* The messages process_job fails a job with.
FailMessages == {"Job processing failed", "Webhook delivery failed after max retries"}

\* The Results the worker and the fast path build.
ResultObjects ==
    ({o.final_result : o \in UNION {PipelineOutputs[n, "any"] : n \in 1..MaxChunks}}
     \cup {o.result : o \in SyncOutputs["any"]}
     \cup {JobErrorResult}) \ {NoResult}

QueueInit ==
    /\ coda = FALSE
    /\ engine = "any"
    /\ worker = [w \in Workers |-> IdleWorker]
    /\ running = [w \in Workers |-> TRUE]
    /\ nextId = MaxJobs
    /\ handler = [j \in JobIds |-> "none"]
    /\ syncCounter = 0
    /\ penv = NoEnv /\ pout = NoOutput /\ rreq = NoRequest /\ rout = NoAnswer
    /\ wposts = NoPosts /\ wout = NoDeliveries
    /\ cin = NoChunkInput /\ cout = NoChunks
    /\ ptrace = <<>>
    /\ notified = [j \in JobIds |-> NoNotifications]
    /\ \E job \in JobObjects :
         /\ qcall \in {[NoCall EXCEPT !.job = job, !.id = id, !.result = r] :
                           id \in JobIds, r \in ResultObjects}
         /\ jobData \in {[j \in JobIds |-> IF j = 1 THEN d ELSE NoJob] :
                            d \in {job, [job EXCEPT !.status = "processing"]}}
    /\ pending \in {<<>>, <<MaxJobs>>}
    /\ processing \in {{}, {1}}
    /\ results \in {[j \in JobIds |-> NoResult],
                     [j \in JobIds |-> IF j = 1 THEN ProcessingErrorResult ELSE NoResult]}

ApplyRetryJob ==
    /\ qcall.op = "none"
    /\ RetryJob(qcall.job)
    /\ qcall' = [qcall EXCEPT !.op = "retry_job", !.ret = RetryJobReturns(qcall.job),
                               !.after = RetryJobObject(qcall.job)]
    /\ UNCHANGED <<results, coda, engine, running, worker, web, penv, pout, rreq, rout,
                   wposts, wout, cin, cout, ptrace, notified>>

\* retry_job while the store refuses a command of enqueue_job.
ApplyRetryJobRefused ==
    /\ qcall.op = "none"
    /\ \E fault \in StoreFaults : RetryJobRefused(qcall.job, fault)
    /\ qcall' = [qcall EXCEPT !.op = "retry_job_refused",
                               !.ret = RetryJobReturns(qcall.job),
                               !.after = RetryJobObject(qcall.job)]
    /\ UNCHANGED <<results, coda, engine, running, worker, web, penv, pout, rreq, rout,
                   wposts, wout, cin, cout, ptrace, notified>>

\* complete_job(job) on the job object as the caller hands it in.
ApplyCompleteJob ==
    /\ qcall.op = "none"
    /\ CompleteJob(qcall.job)
    /\ qcall' = [qcall EXCEPT !.op = "complete_job", !.ret = "true",
                               !.after = MarkCompleted(qcall.job)]
    /\ UNCHANGED <<results, coda, engine, running, worker, web, penv, pout, rreq, rout,
                   wposts, wout, cin, cout, ptrace, notified>>

\* fail_job(job, message) with either message process_job gives it.
ApplyFailJob ==
    /\ qcall.op = "none"
    /\ \E message \in FailMessages :
         /\ FailJob(qcall.job, message)
         /\ qcall' = [qcall EXCEPT !.op = "fail_job", !.ret = "true",
                                    !.after = MarkFailed(qcall.job, message)]
    /\ UNCHANGED <<results, coda, engine, running, worker, web, penv, pout, rreq, rout,
                   wposts, wout, cin, cout, ptrace, notified>>

\* store_result(id, r) on a store that may or may not hold a job record and
\* an earlier Result for id.
ApplyStoreResult ==
    /\ qcall.op = "none"
    /\ StoreResult(qcall.id, qcall.result)
    /\ qcall' = [qcall EXCEPT !.op = "store_result", !.ret = "true"]
    /\ UNCHANGED <<pending, jobData, processing, coda, engine, running, worker, web,
                   penv, pout, rreq, rout, wposts, wout, cin, cout, ptrace, notified>>

QueueNext ==
    \/ ApplyRetryJob
    \/ ApplyRetryJobRefused
    \/ ApplyCompleteJob
    \/ ApplyFailJob
    \/ ApplyStoreResult

QueueSpec == QueueInit /\ [][QueueNext]_vars

\* -------------------------------------------------------------- WebhookSpec
\* One delivery by each sender on its own: the outcomes of the POSTs are
\* drawn at the start and both senders are run on them.
WebhookInit ==
    /\ StoreInit
    /\ penv = NoEnv /\ pout = NoOutput /\ rreq = NoRequest /\ rout = NoAnswer
    /\ qcall = NoCall
    /\ wposts \in WebhookPosts
    /\ wout = NoDeliveries
    /\ cin = NoChunkInput /\ cout = NoChunks
    /\ ptrace = <<>>

ApplyDelivery ==
    /\ wout = NoDeliveries
    /\ wout' = [kind \in Senders |-> WebhookLoop(kind, wposts, 0, <<>>)]
    /\ UNCHANGED <<store, coda, engine, running, worker, web, penv, pout, rreq, rout, qcall,
                   wposts, cin, cout, ptrace, notified>>

WebhookNext == ApplyDelivery

WebhookSpec == WebhookInit /\ [][WebhookNext]_vars

\* ---------------------------------------------------------------- ChunkSpec
\* One call of chunk_content on its own: the content and the prompt are drawn
\* at the start and the call is applied to them.
ChunkInit ==
    /\ StoreInit
    /\ penv = NoEnv /\ pout = NoOutput /\ rreq = NoRequest /\ rout = NoAnswer
    /\ qcall = NoCall
    /\ wposts = NoPosts /\ wout = NoDeliveries
    /\ coda = FALSE /\ engine = "any"
    /\ cin \in [content : ChunkContents, prompt : ChunkPrompts, called : {TRUE}]
    /\ cout = NoChunks
    /\ ptrace = <<>>

ApplyChunkContent ==
    /\ cout = NoChunks
    /\ LET r == ChunkContent(cin.content, cin.prompt)
       IN cout' = [raised |-> r.raised, failed |-> r.failed, chunks |-> r.chunks,
                   returned |-> ~r.raised]
    /\ UNCHANGED <<store, coda, engine, running, worker, web, penv, pout, rreq, rout, qcall,
                   wposts, wout, cin, ptrace, notified>>

ChunkNext == ApplyChunkContent

ChunkSpec == ChunkInit /\ [][ChunkNext]_vars

\* =================================================================== claims
Terminal == {"success", "failed"}
Holds(w, j) == worker[w].pc # "idle" /\ worker[w].job.job_id = j
WorkerDone(j) == \A w \in Workers : ~Holds(w, j)
Occurrences(list, j) == Cardinality({k \in 1..Len(list) : list[k] = j})

StatusStepAllowed(old, new) ==
    \/ new.status = old.status /\ new.retry_count = old.retry_count
    \/ old.status = "none" /\ new.status = "pending" /\ new.retry_count = 0
    \/ /\ old.status = "pending" /\ new.status = "processing"
       /\ new.retry_count = old.retry_count
    \/ /\ old.status = "processing" /\ new.status \in Terminal
       /\ new.retry_count = old.retry_count
    \/ /\ old.status \in {"processing", "failed"} /\ new.status = "pending"
       /\ old.retry_count < old.max_retries
       /\ new.retry_count = old.retry_count + 1

\* C1: a job's persisted status changes only pending -> processing,
\* processing -> success, processing -> failed, or processing/failed ->
\* pending; the step back to pending is taken only with retry_count <
\* max_retries and adds exactly one to retry_count.
C1_StatusTransitions ==
    [][\A j \in JobIds : StatusStepAllowed(jobData[j], jobData'[j])]_vars

\* C1 witness: a job was retried to its limit and then failed.
C1_Witness ==
    \E j \in JobIds : /\ jobData[j].status = "failed"
                      /\ jobData[j].retry_count = jobData[j].max_retries
                      /\ jobData[j].retry_count > 0

\* C2: a job id pushed once is handed to at most one worker: at any moment
\* the workers holding it and its places on the pending list are at most one
\* together, so no two workers process the same job at the same time.
C2_AtomicPop ==
    \A j \in JobIds :
        Cardinality({w \in Workers : Holds(w, j)}) + Occurrences(pending, j) <= 1

\* C2 witness: two workers are each processing a job while they race for the list.
C2_Witness ==
    \E w1, w2 \in Workers :
        /\ w1 # w2
        /\ worker[w1].pc = "process" /\ worker[w2].pc = "process"
        /\ worker[w1].job.job_id # worker[w2].job.job_id

\* C3: when every process call of the engine fails, a job the worker is
\* finished with has persisted status failed and a FAILED Result is stored.
C3_AllFailedEndsFailed ==
    engine \in {"fail", "timeout"} =>
        \A j \in JobIds :
            (jobData[j].status \in Terminal /\ WorkerDone(j)) =>
                (jobData[j].status = "failed" /\ results[j].status = "FAILED")

\* C4: when every process call of the engine times out, each run ends in a
\* job-level retry while retries remain, so a job reaches a terminal status
\* only as failed and only with retry_count = max_retries.
C4_TimeoutsRetryThenFail ==
    engine = "timeout" =>
        \A j \in JobIds :
            jobData[j].status \in Terminal =>
                /\ jobData[j].status = "failed"
                /\ jobData[j].retry_count = jobData[j].max_retries

\* C5: a Result, once stored under a job id, is never changed.
C5_ResultImmutable ==
    [][\A j \in JobIds : results[j] # NoResult => results'[j] = results[j]]_vars

\* C6: every job that process_job has left with a terminal status has a
\* Result stored under its job id.
C6_TerminalHasResult ==
    \A j \in JobIds :
        (jobData[j].status \in Terminal /\ WorkerDone(j)) => results[j] # NoResult

\* C6 witness: the except block failed a job with no retries left and stored
\* the error Result.
C6_Witness ==
    \E j \in JobIds : /\ jobData[j].status = "failed"
                      /\ jobData[j].error_message = "Job processing failed"
                      /\ WorkerDone(j)
                      /\ results[j] = JobErrorResult

\* C7: when the webhook delivery of a run has failed, the step that follows
\* re-enqueues the job through retry_job if retry_count < max_retries, and
\* otherwise marks it failed with the delivery message; either way the
\* Result stored by the run stays as it is.
C7_DeliveryFailure ==
    [][\A w \in Workers :
          (worker[w].pc = "finish" /\ ~worker[w].webhook_success
           /\ worker'[w].pc # "finish") =>
             LET job == worker[w].job
                 id == job.job_id
             IN /\ results[id].reason \in {"quality", "processing_error"}
                /\ results'[id] = results[id]
                /\ IF job.retry_count < job.max_retries
                   THEN /\ jobData'[id] = MarkRetried(job)
                        /\ jobData'[id].status = "pending"
                        /\ jobData'[id].retry_count = job.retry_count + 1
                        /\ pending' = LPush(pending, id)
                   ELSE /\ jobData'[id].status = "failed"
                        /\ jobData'[id].error_message =
                               "Webhook delivery failed after max retries"
                        /\ pending' = pending]_vars

\* C7 witness: a job failed for delivery alone while its Result says SUCCESS.
C7_Witness ==
    \E j \in JobIds :
        /\ jobData[j].status = "failed"
        /\ jobData[j].error_message = "Webhook delivery failed after max retries"
        /\ jobData[j].retry_count = jobData[j].max_retries
        /\ results[j].status = "SUCCESS"

\* C8: a quality gate that was called and timed out or raised yields
\* SUCCESS: the Result the run builds has status SUCCESS, and the run ends
\* exactly as it does when the gate answers SUCCESS.
C8_GateFailsOpen ==
    (pout # NoOutput /\ pout.gate_called /\ penv.gate \in {"timeout", "error"}
     /\ ~pout.raised) =>
        /\ AssessQuality(penv.gate) = "SUCCESS"
        /\ pout.final_result.status = "SUCCESS"
        /\ pout = Pipeline([penv EXCEPT !.gate = "SUCCESS"])

\* C8 witness: a run whose gate timed out built a SUCCESS Result.
C8_Witness ==
    /\ pout # NoOutput /\ pout.gate_called /\ penv.gate = "timeout"
    /\ ~pout.raised /\ pout.final_result.status = "SUCCESS"

\* C9: a title call that times out or fails never lets the run raise: the
\* default title is used and the Result carries the quality-gate status.
C9_NameFailsOpen ==
    (pout # NoOutput /\ pout.name_called /\ penv.name \in {"timeout", "error"}) =>
        /\ ~pout.raised
        /\ pout.final_result.status = AssessQuality(penv.gate)
        /\ (pout.final_result.status = "SUCCESS" =>
                pout.final_result.analysis_name = "AI Analysis Result")

\* C10: for every job id start_analysis has answered with, a poll answers
\* processing, complete or failed, never not-found, and failed comes with a
\* non-empty error_message.
C10_PollAfterSubmit ==
    \A j \in JobIds :
        handler[j] \in {"processing", "complete", "failed"} =>
            /\ PollResponse(j).status \in {"processing", "complete", "failed"}
            /\ (PollResponse(j).status = "failed" =>
                    PollResponse(j).error_message \notin {"none", ""})

InFastPath == {j \in JobIds : handler[j] = "sync"}

\* C11: sync_processing is decremented once for each increment on every way
\* out of a fast-path attempt: the counter always equals the number of
\* requests inside the fast path, and is back to zero when none is.
C11_SyncCounterBalanced ==
    /\ syncCounter = Cardinality(InFastPath)
    /\ (InFastPath = {} => syncCounter = 0)

\* C11 witness: every request has been answered, one of them by the fast
\* path and one by the queue, and the counter is back to zero.
C11_Witness ==
    /\ nextId = MaxJobs
    /\ InFastPath = {}
    /\ syncCounter = 0
    /\ \E j \in JobIds : results[j].reason = "sync"
    /\ \E j \in JobIds : handler[j] = "processing"

\* An exception or the overall timeout reached start_analysis from inside the
\* fast-path attempt of the request.
AttemptAborted ==
    /\ rout.fast_path
    /\ \/ rreq.env.timeout
       \/ ~rreq.env.chunk.ok
       \/ (rreq.env.name = "error" /\ ~NameQuickCheck(rreq.env.chunk.text))

\* C12: an exception or timeout during the fast-path attempt aborts it
\* silently: the handler stores no Result, enqueues the request as a pending
\* job and answers processing.
C12_FastPathFallsBack ==
    (rout # NoAnswer /\ AttemptAborted) =>
        /\ rout.result = NoResult
        /\ rout.enqueued
        /\ rout.job.status = "pending" /\ rout.job.retry_count = 0
        /\ rout.answer = "processing"

\* C12 witness: the engine call went well, the overall timeout fired later,
\* and the request went to the queue.
C12_Witness ==
    /\ rout # NoAnswer /\ AttemptAborted
    /\ rreq.env.timeout /\ rreq.env.chunk.ok
    /\ rout.enqueued /\ rout.answer = "processing"

\* C13: a request whose content holds a file reference never enters the
\* fast path, whatever its size: no inline engine call, no Result stored
\* inline, the counter untouched; it is enqueued or turned away.
C13_FilesSkipFastPath ==
    (rout # NoAnswer /\ rreq.content.file # "none") =>
        /\ ~rout.fast_path
        /\ rout.incrs = 0 /\ rout.decrs = 0
        /\ rout.result = NoResult
        /\ rout.answer \in {"processing", "failed", "rejected"}
        /\ rout.enqueued = (rout.answer = "processing")

\* C13 witness: a small single-chunk request with a valid file reference,
\* which only its file reference kept from the fast path, was enqueued.
C13_Witness ==
    /\ rout # NoAnswer /\ rreq.content.file = "valid"
    /\ rreq.content.len < SmallContentThreshold /\ rreq.content.chunks = 1
    /\ ~Rejected(rreq.content)
    /\ rout.enqueued /\ ~rout.fast_path

\* C14: retry_job on a job with retry_count >= max_retries returns false and
\* changes nothing: the job object, the persisted record, the pending list,
\* the processing set and the stored Results stay as they were.
C14_RetryAtLimitIsNoOp ==
    [][(qcall.op = "none" /\ qcall'.op = "retry_job"
        /\ qcall.job.retry_count >= qcall.job.max_retries) =>
           /\ qcall'.ret = "false"
           /\ qcall'.after = qcall.job
           /\ jobData' = jobData
           /\ pending' = pending
           /\ processing' = processing
           /\ results' = results]_vars

\* C14 witness: retry_job was called on a failed job at its limit and refused.
C14_Witness ==
    /\ qcall.op = "retry_job"
    /\ qcall.job.status = "failed"
    /\ qcall.job.retry_count = qcall.job.max_retries
    /\ qcall.job.max_retries = DefaultMaxRetries
    /\ qcall.ret = "false"

\* C15: the job dequeue_job returns is the tail of the pending list, has
\* status processing and started_at set, equals its persisted record, and
\* its id is in the processing set; with an empty pending list no worker is
\* handed a job, no record is marked processing and the processing set gains
\* no member.
C15_Dequeue ==
    [][\A w \in Workers :
          /\ (worker[w].pc = "idle" /\ worker'[w].pc # "idle") =>
                LET job == worker'[w].job
                IN /\ pending # <<>>
                   /\ job.job_id = pending[Len(pending)]
                   /\ job.status = "processing"
                   /\ job.started
                   /\ jobData'[job.job_id] = job
                   /\ job.job_id \in processing'
          /\ (worker[w].pc = "idle" /\ pending = <<>>) =>
                /\ worker'[w] = worker[w]
                /\ processing' \subseteq processing
                /\ \A j \in JobIds : jobData'[j].status = "processing" =>
                                          jobData'[j] = jobData[j]]_vars

\* C15 witness: a job that was retried has been dequeued again and is held
\* by a worker with its fresh stamp.
C15_Witness ==
    \E w \in Workers :
        LET job == worker[w].job
        IN /\ worker[w].pc = "process"
           /\ job.retry_count > 0
           /\ job.status = "processing" /\ job.started
           /\ jobData[job.job_id] = job
           /\ job.job_id \in processing

Is2xx(status) == status \in 200..299
Delivering == \A kind \in Senders : wout[kind] # NoDelivery

\* C17: both senders take every 2xx response as success and every other
\* outcome as a failed attempt: a delivery succeeds exactly when one of its
\* POSTs is answered 2xx, and it stops at the first such POST.
C17_Every2xxIsSuccess ==
    Delivering =>
        \A kind \in Senders :
            /\ wout[kind].ok = (\E k \in 1..WebhookMaxRetries : Is2xx(wposts[k]))
            /\ (wout[kind].ok => Is2xx(wposts[wout[kind].posted]))
            /\ \A k \in 1..(wout[kind].posted - 1) : ~Is2xx(wposts[k])

\* C18: one delivery makes at most max_retries (3) POSTs and stops at the
\* first attempt the sender takes as success; it sleeps 2 s, then 4 s, after
\* failed attempts but not after the last; it returns failure exactly when
\* every one of the 3 attempts failed.
C18_BoundedAttempts ==
    Delivering =>
        \A kind \in Senders :
            LET d == wout[kind]
                failed(k) == ~Accepts(kind, wposts[k])
            IN /\ d.posted \in 1..WebhookMaxRetries
               /\ WebhookMaxRetries = 3
               /\ \A k \in 1..(d.posted - 1) : failed(k)
               /\ d.ok = ~failed(d.posted)
               /\ ~d.ok = (d.posted = WebhookMaxRetries
                            /\ \A k \in 1..WebhookMaxRetries : failed(k))
               /\ Len(d.waits) = (IF d.ok THEN d.posted - 1 ELSE WebhookMaxRetries - 1)
               /\ \A i \in 1..Len(d.waits) : d.waits[i] = 2 ^ i
               /\ \A i \in 1..(Len(d.waits) - 1) : d.waits[i] < d.waits[i + 1]

\* C18 witness: the sender of the request's webhook made all three attempts,
\* slept twice and reported failure, while the notification sender stopped
\* at its second attempt after one sleep.
C18_Witness ==
    /\ Delivering
    /\ ~wout["legacy"].ok /\ wout["legacy"].posted = 3
    /\ wout["legacy"].waits = <<2, 4>>
    /\ wout["coda"].ok /\ wout["coda"].posted = 2 /\ wout["coda"].waits = <<2>>

\* A worker that has received the shutdown signal takes no job from the queue.
NoDequeueAfterSignal(w) ==
    ~running[w] => ~(worker[w].pc = "idle" /\ worker'[w].pc = "process")

\* A worker leaves its loop only from the loop test: with no job in hand, or
\* in the step that ends process_job, which leaves the job's record complete,
\* failed or pending again and the job out of the worker's hands.
StopsOnlyAfterProcessJob(w) ==
    (worker[w].pc # "stopped" /\ worker'[w].pc = "stopped") =>
        /\ ~running[w]
        /\ worker'[w].job = NoJob
        /\ \/ worker[w].pc = "idle"
           \/ /\ worker[w].pc \in {"process", "finish", "error_store"}
              /\ jobData'[worker[w].job.job_id].status \in {"pending", "success", "failed"}

\* C19: once a worker has received the shutdown signal it dequeues no further
\* job, and a job in flight when the signal arrives is carried through to the
\* end of process_job before the worker stops.
C19_GracefulShutdown ==
    [][\A w \in Workers : NoDequeueAfterSignal(w) /\ StopsOnlyAfterProcessJob(w)]_vars

\* The second half of C19 on its own.
C19_InFlightJobIsFinished ==
    [][\A w \in Workers : StopsOnlyAfterProcessJob(w)]_vars

\* A worker stopped after the signal, having taken a job off the queue.
C19_Reached ==
    \E w \in Workers : worker[w].pc = "stopped" /\ Cardinality(processing) + Len(pending) > 0

\* The slices of the fallback: consecutive from the first character, each of
\* FallbackChunkSize characters but the last, ending at the end of the content.
FixedSizeSlices(chunks, len) ==
    /\ \A k \in 1..Len(chunks) :
          /\ chunks[k].kind = "slice"
          /\ chunks[k].from = (k - 1) * FallbackChunkSize
          /\ chunks[k].size \in 1..FallbackChunkSize
          /\ (k < Len(chunks) => chunks[k].size = FallbackChunkSize)
    /\ (Len(chunks) > 0 => chunks[Len(chunks)].from + chunks[Len(chunks)].size = len)

C20_ReturnsSlicesOnFailure ==
    (cin.called /\ cout # NoChunks) =>
        /\ ~cout.raised
        /\ cout.returned
        /\ (cout.failed => FixedSizeSlices(cout.chunks, ContentLen(cin.content)))

\* An internal failure on a content of more than one slice.
C20_Reached ==
    cout.returned /\ cout.failed /\ Len(cout.chunks) > 1

\* The places of the content's units that the fragments hold, in the order of
\* the fragments.
RECURSIVE Rejoined(_)
Rejoined(chunks) ==
    IF chunks = <<>> THEN <<>> ELSE Head(chunks).units \o Rejoined(Tail(chunks))

\* Every unit of the content is in the joined fragments, none before a unit
\* that precedes it in the content.
ReproducesUnits(joined, content) ==
    /\ \A i \in 1..Len(content.blocks) : \E k \in 1..Len(joined) : joined[k] = i
    /\ \A k \in 1..Len(joined) : \A l \in k..Len(joined) : joined[k] <= joined[l]

\* C21: the fragments returned by chunk_content, rejoined in order, reproduce
\* the content up to the separators between units: no part of the content is
\* dropped and the units keep their order.
C21_RejoinReproducesContent ==
    (cin.called /\ cout.returned) =>
        IF cout.failed
        THEN /\ FixedSizeSlices(cout.chunks, ContentLen(cin.content))
             /\ (cout.chunks = <<>> => ContentLen(cin.content) = 0)
        ELSE ReproducesUnits(Rejoined(cout.chunks), cin.content)

\* C21 on the contents without bracketed text.
C21_ReproducesUnbracketedContent ==
    (cin.called /\ cout.returned /\ \A i \in 1..Len(cin.content.blocks) :
                                        ~cin.content.blocks[i].bracket) =>
        IF cout.failed
        THEN /\ FixedSizeSlices(cout.chunks, ContentLen(cin.content))
             /\ (cout.chunks = <<>> => ContentLen(cin.content) = 0)
        ELSE ReproducesUnits(Rejoined(cout.chunks), cin.content)

\* A content of several units returned in more than one fragment by the
\* token path.
C21_Reached ==
    cout.returned /\ ~cout.failed /\ Len(cout.chunks) > 1 /\ Len(cin.content.blocks) > 1

\* The worker is between store_result and the end of the deliveries of its
\* run: a POST is under way, or the deliveries have ended, failed or not.
Delivers(w) == worker[w].pc \in {"deliver", "finish"}

\* The Result that a poll of job id reads after the step.
GetJobResultNext(id) == results'[id]

\* C22: process_job stores the Result before the first webhook POST of the
\* run: the step that leads to the deliveries is the one that stores the
\* Result of the run, and while a delivery is under way or has failed
\* get_job_result returns that Result.
C22_ResultStoredBeforeDelivery ==
    [][\A w \in Workers :
          worker'[w].pc \in {"deliver", "finish"} =>
              /\ GetJobResultNext(worker[w].job.job_id) # NoResult
              /\ (~Delivers(w) =>
                     /\ worker[w].pc = "process"
                     /\ \E out \in PipelineOutputs[worker[w].job.request_data.chunks, engine] :
                           /\ ~out.raised
                           /\ GetJobResultNext(worker[w].job.job_id)
                                  = ParseResult(ResultJson(out.final_result)))
              /\ (Delivers(w) => GetJobResultNext(worker[w].job.job_id)
                                     = GetJobResult(worker[w].job.job_id))]_vars

\* The deliveries of a run have failed and the Result of the run is readable.
C22_Witness ==
    \E w \in Workers :
        /\ worker[w].pc = "finish"
        /\ ~worker[w].webhook_success
        /\ GetJobResult(worker[w].job.job_id) # NoResult

\* The run of worker w left the try block of process_job by an exception: it
\* was before store_result and is now neither there nor delivering.
RunRaised(w) ==
    worker[w].pc = "process" /\ worker'[w].pc \notin {"process", "deliver"}

\* C23: an error that leaves the pipeline is caught at the end of process_job
\* and the worker goes back to its loop: with retries left the job is
\* re-enqueued by retry_job; else the job is marked FAILED with the message,
\* a FAILED Result with an error message is stored, and the outcome of the
\* failure notification changes nothing.
C23_ErrorsCaughtAtJobBoundary ==
    [][\A w \in Workers :
          LET job == worker[w].job
              id == job.job_id
          IN /\ RunRaised(w) =>
                   IF job.retry_count < job.max_retries
                   THEN /\ worker'[w] = IdleWorker
                        /\ jobData'[id] = MarkRetried(job)
                        /\ pending' = LPush(pending, id)
                   ELSE /\ worker'[w].pc = "error_store"
                        /\ jobData'[id].status = "failed"
                        /\ jobData'[id].error_message = "Job processing failed"
                        /\ pending' = pending
                        /\ id \notin processing'
             /\ (worker[w].pc = "error_store" /\ worker'[w] # worker[w]) =>
                   /\ worker'[w] = IdleWorker
                   /\ GetJobResultNext(id).status = "FAILED"
                   /\ GetJobResultNext(id).error_message # "none"
                   /\ jobData'[id] = jobData[id]
                   /\ pending' = pending]_vars

\* A job retried to its limit, whose last run raised: it is FAILED with the
\* message, its error Result is stored and its worker is back in the loop.
C23_Witness ==
    \E j \in JobIds :
        /\ jobData[j].status = "failed"
        /\ jobData[j].error_message = "Job processing failed"
        /\ jobData[j].retry_count = jobData[j].max_retries
        /\ GetJobResult(j) = JobErrorResult
        /\ WorkerDone(j)

\* The Result stored for job j is that of a run with an error marker among
\* its fragment results.
HadErrorMarker(j) == GetJobResult(j).reason = "processing_error"

\* C24: when a fragment's result carries an error marker, the run stores a
\* FAILED Result and the job's status does not become SUCCESS.
C24_ErrorMarkerFailsJob ==
    \A j \in JobIds :
        HadErrorMarker(j) =>
            /\ GetJobResult(j).status = "FAILED"
            /\ jobData[j].status # "success"

\* The part of C24 within one run: with an error marker among the fragment
\* results neither the quality gate nor the title call is made and the Result
\* is FAILED.
C24_NoSecondaryCalls ==
    (pout # NoOutput /\ HasProcessingErrors(ProcessChunksSequential(penv.chunks))) =>
        /\ ~pout.gate_called
        /\ ~pout.name_called
        /\ ~pout.raised
        /\ pout.final_result.status = "FAILED"

\* The chunks whose call is in the trace, in the order of the calls.
CallsOf(trace) ==
    LET calls == SelectSeq(trace, LAMBDA e : e.op = "call")
    IN [k \in 1..Len(calls) |-> calls[k].chunk]

\* C25: the chunks of a job go to the engine one after another in list order,
\* each once, whether or not an earlier call failed; a failed call leaves an
\* error marker at its place and the result list has one entry per chunk in
\* chunk order.
C25_SequentialInOrder ==
    pout # NoOutput =>
        LET n == Len(penv.chunks)
            rs == ProcessChunksSequential(penv.chunks)
        IN /\ CallsOf(ptrace) = [k \in 1..n |-> k]
           /\ Len(rs) = n
           /\ \A k \in 1..n :
                 rs[k] = IF penv.chunks[k].ok THEN penv.chunks[k].text
                         ELSE ErrorMarker(penv.chunks[k].exc)

\* A run of two chunks whose first call failed and whose second returned.
C25_Witness ==
    /\ pout # NoOutput
    /\ Len(penv.chunks) = 2
    /\ ~penv.chunks[1].ok /\ penv.chunks[2].ok
    /\ CallsOf(ptrace) = <<1, 2>>

\* C26: between the calls of two consecutive chunks the inter-chunk delay
\* elapses, whether the earlier call succeeded or failed, and no delay
\* follows the last chunk.
C26_DelayBetweenChunks ==
    pout # NoOutput =>
        /\ \A k \in 1..(Len(ptrace) - 1) :
              (ptrace[k].op = "call" /\ ptrace[k].chunk < Len(penv.chunks)) =>
                  ptrace[k + 1] = Sleep(ptrace[k].chunk)
        /\ (ptrace # <<>> => ptrace[Len(ptrace)].op = "call")

\* C26 for the calls that returned: the delay follows each of them but the
\* last.
C26_DelayAfterReturnedCall ==
    pout # NoOutput =>
        /\ \A k \in 1..(Len(ptrace) - 1) :
              (ptrace[k].op = "call" /\ ptrace[k].chunk < Len(penv.chunks)
                   /\ penv.chunks[ptrace[k].chunk].ok) =>
                  ptrace[k + 1] = Sleep(ptrace[k].chunk)
        /\ (ptrace # <<>> => ptrace[Len(ptrace)].op = "call")

\* retry_job is called in this step on a job with retries left.
RetriesJob ==
    /\ qcall.op = "none"
    /\ qcall'.op \in {"retry_job", "retry_job_refused"}
    /\ qcall.job.retry_count < qcall.job.max_retries

\* The job is re-enqueued in this step: its record is the job object after the
\* call and its id is behind every id that was waiting, the last to be popped.
ReEnqueued ==
    /\ jobData'[qcall.job.job_id] = qcall'.after
    /\ Len(pending') = Len(pending) + 1
    /\ pending'[1] = qcall.job.job_id
    /\ \A k \in 1..Len(pending) : pending'[k + 1] = pending[k]

\* What retry_job does to the job object with retries left.
RetriedObject ==
    /\ qcall'.after.retry_count = qcall.job.retry_count + 1
    /\ qcall'.after.status = "pending"
    /\ ~qcall'.after.started
    /\ qcall'.after.error_message = "none"
    /\ qcall'.after.job_id = qcall.job.job_id
    /\ qcall'.after.request_data = qcall.job.request_data

\* C27: retry_job on a job with retry_count < max_retries adds 1 to
\* retry_count, sets status pending, clears started_at and error_message,
\* persists the job and pushes its id behind every id already waiting, and
\* returns true only if the job was re-enqueued.
C27_RetryReEnqueues ==
    [][RetriesJob =>
          /\ RetriedObject
          /\ (qcall'.op = "retry_job" => ReEnqueued /\ qcall'.ret = "true")
          /\ (qcall'.ret = "true" => ReEnqueued)]_vars

\* C27 on a store that takes every command.
C27_RetryOnWorkingStore ==
    [][(RetriesJob /\ qcall'.op = "retry_job") =>
          /\ RetriedObject
          /\ ReEnqueued
          /\ qcall'.ret = "true"]_vars

\* retry_job was called with retries left on a store with an id waiting.
C27_Reached ==
    /\ qcall.op = "retry_job"
    /\ qcall.ret = "true"
    /\ Len(pending) = 2

\* What fail_job does: completed_at stamped, status failed with the message,
\* the record persisted and the id out of the processing set.
FailJobDone ==
    (qcall.op = "none" /\ qcall'.op = "fail_job") =>
        /\ qcall'.after.completed
        /\ qcall'.after.status = "failed"
        /\ qcall'.after.error_message \in FailMessages
        /\ jobData'[qcall.job.job_id] = qcall'.after
        /\ qcall.job.job_id \notin processing'

\* What complete_job does whatever the status of the job handed in:
\* completed_at stamped, the record persisted and the id out of the
\* processing set.
CompleteJobDone ==
    (qcall.op = "none" /\ qcall'.op = "complete_job") =>
        /\ qcall'.after.completed
        /\ jobData'[qcall.job.job_id] = qcall'.after
        /\ qcall.job.job_id \notin processing'

C28_StampPersistRemove ==
    [][FailJobDone /\ CompleteJobDone]_vars

\* complete_job or fail_job was called on a job held in the processing set.
C28_Reached ==
    /\ qcall.op \in {"complete_job", "fail_job"}
    /\ jobData[1].completed
    /\ processing = {}

\* The step puts job id x on the pending list behind every id waiting there.
EntersBehind(x) ==
    /\ Len(pending') = Len(pending) + 1
    /\ pending'[1] = x
    /\ \A k \in 1..Len(pending) : pending'[k + 1] = pending[k]

\* The step hands worker w the id that has waited longest and leaves the
\* others waiting in their order.
TakesOldest(w) ==
    /\ pending # <<>>
    /\ worker[w].pc = "idle" /\ worker'[w].pc = "process"
    /\ worker'[w].job.job_id = pending[Len(pending)]
    /\ Len(pending') = Len(pending) - 1
    /\ \A k \in 1..Len(pending') : pending'[k] = pending[k]

\* C29: jobs are dequeued in the order they were enqueued: an enqueued job,
\* first time or on retry, goes behind every job waiting at that time, a
\* dequeue takes the job that has waited longest, and nothing else changes the
\* order of the waiting jobs.
C29_Fifo ==
    [][/\ pending' # pending =>
             \/ \E x \in JobIds : EntersBehind(x)
             \/ \E w \in Workers : TakesOldest(w)
       /\ \A w \in Workers :
             (worker[w].pc = "idle" /\ worker'[w].pc = "process") => TakesOldest(w)
       /\ \A j \in JobIds :
             jobData'[j].retry_count > jobData[j].retry_count => EntersBehind(j)]_vars

\* A retried job waits behind a job that was enqueued while it ran.
C29_Witness ==
    /\ Len(pending) = 2
    /\ jobData[pending[1]].retry_count > 0
    /\ jobData[pending[2]].retry_count = 0

\* C30: a request without file reference that is not turned away enters the
\* fast path exactly when its content is under 10000 characters and
\* chunk_content makes one fragment of it; else it is enqueued at once, with
\* no inline engine call, no Result stored inline and the counter untouched.
C30_FastPathEntry ==
    (rout # NoAnswer /\ rreq.content.file = "none" /\ ~Rejected(rreq.content)) =>
        /\ rout.fast_path = (rreq.content.len < 10000 /\ rreq.content.chunks = 1)
        /\ rout.fast_path = (rout.incrs = 1)
        /\ (~rout.fast_path =>
               /\ rout.answer = "processing"
               /\ rout.enqueued
               /\ rout.incrs = 0 /\ rout.decrs = 0
               /\ rout.result = NoResult)

\* A content of 9999 characters in one fragment took the fast path and was
\* answered inline.
C30_Witness ==
    /\ rout # NoAnswer /\ rreq.content.file = "none"
    /\ rreq.content.len = 9999 /\ rreq.content.chunks = 1
    /\ rout.fast_path /\ ~rout.enqueued
    /\ rout.answer = "complete"

\* A content of 10000 characters in one fragment was enqueued at once.
C30_AtThreshold ==
    /\ rout # NoAnswer /\ rreq.content.file = "none"
    /\ rreq.content.len = 10000 /\ rreq.content.chunks = 1
    /\ ~rout.fast_path /\ rout.enqueued

\* Worker w runs a job without webhook target of its own while no
\* notification webhook is configured.
NoPushTarget(w) ==
    /\ ~coda
    /\ worker[w].job.request_data.webhook_url = ""
    /\ worker[w].pc \in {"process", "deliver", "finish"}

\* C31: a job made from a PollingRequest has an empty webhook_url; with no
\* notification webhook configured its run depends on no delivery: once the
\* Result is stored webhook_success stays true and the job is completed with
\* status success, neither retried nor failed for delivery.
C31_NoTargetNoDelivery ==
    [][\A w \in Workers :
          LET id == worker[w].job.job_id
          IN NoPushTarget(w) =>
                /\ worker'[w].pc = "finish" => worker'[w].webhook_success
                /\ (worker[w].pc = "finish" /\ worker'[w].pc # "finish") =>
                       /\ jobData'[id].status = "success"
                       /\ jobData'[id].completed
                       /\ jobData'[id].retry_count = worker[w].job.retry_count
                       /\ id \notin processing'
                       /\ pending' = pending
                /\ jobData'[id].error_message
                       # "Webhook delivery failed after max retries"]_vars

\* A job made by POST /request was completed with no push target configured.
C31_Witness ==
    /\ ~coda
    /\ \E j \in JobIds :
          /\ handler[j] = "processing"
          /\ jobData[j].request_data.webhook_url = ""
          /\ jobData[j].status = "success" /\ jobData[j].completed
          /\ GetJobResult(j) # NoResult

\* available_tokens of chunk_content for the prompt of the call.
ChunkBudget ==
    LET prompt_tokens == IF cin.prompt.tokens > 0 THEN cin.prompt.tokens
                         ELSE DefaultPromptTokens
        available_tokens == MultiChunkBudget - prompt_tokens - SafetyBuffer
    IN IF available_tokens <= MinContentSpace THEN MinContentSpace
       ELSE available_tokens

\* The call returned from _chunk_content_by_tokens.
MultiChunkPath ==
    /\ cout.returned /\ ~cout.failed
    /\ TokensOf(cin.content.blocks)
          + (IF cin.prompt.tokens > 0 THEN cin.prompt.tokens ELSE DefaultPromptTokens)
          + SafetyBuffer >= SingleChunkThreshold

\* Tokens of a fragment as returned: its units and the separators between.
JoinedTokens(f) ==
    f.size + (IF f.kind = "blocks" /\ Len(f.units) > 1
              THEN (Len(f.units) - 1) * SeparatorTokens ELSE 0)

\* One unit that neither paragraphs nor sentences brought under the budget.
KeptOversized(f) ==
    Len(f.units) = 1 /\ f.kind \in {"sentences", "whole"} /\ f.size > ChunkBudget

\* C32: on the multi-chunk path every returned fragment, separators included,
\* is within the per-chunk token budget, except a fragment of one unit that no
\* granularity brought under the budget, which is kept oversized.
C32_FragmentsWithinBudget ==
    MultiChunkPath =>
        \A k \in 1..Len(cout.chunks) :
            JoinedTokens(cout.chunks[k]) <= ChunkBudget \/ KeptOversized(cout.chunks[k])

\* The part that holds: the tokens of the units of every fragment, without
\* the separators, are within the budget, the oversized unit excepted, and
\* the units are packed in order.
C32_UnitTokensWithinBudget ==
    MultiChunkPath =>
        /\ \A k \in 1..Len(cout.chunks) :
              cout.chunks[k].size <= ChunkBudget \/ KeptOversized(cout.chunks[k])
        /\ \A k \in 1..Len(cout.chunks) : \A i, j \in 1..Len(cout.chunks[k].units) :
              i < j => cout.chunks[k].units[i] < cout.chunks[k].units[j]

\* Two units were joined into one fragment, and one unit was kept oversized.
C32_Reached ==
    /\ MultiChunkPath
    /\ \E k \in 1..Len(cout.chunks) : Len(cout.chunks[k].units) > 1
    /\ \E k \in 1..Len(cout.chunks) : KeptOversized(cout.chunks[k])

\* C33: retry_count never exceeds max_retries (0 and 2 for a new job), and
\* process_job runs at most max_retries + 1 times for a job_id: every run
\* takes one entry of the pending list, the first entry is put by the request
\* handler, and every later one by a retry that adds one to retry_count.
C33_RetryBounded ==
    /\ [](\A j \in JobIds :
             /\ jobData[j].retry_count <= jobData[j].max_retries
             /\ jobData[j] # NoJob => jobData[j].max_retries = DefaultMaxRetries
             /\ \A w \in Workers :
                   worker[w].job.retry_count <= worker[w].job.max_retries)
    /\ [][\A j \in JobIds :
             /\ Occurrences(pending', j) > Occurrences(pending, j) =>
                   /\ Occurrences(pending', j) = Occurrences(pending, j) + 1
                   /\ \/ jobData[j] = NoJob /\ jobData'[j].retry_count = 0
                      \/ /\ jobData[j] # NoJob
                         /\ jobData'[j].retry_count = jobData[j].retry_count + 1
             /\ \A w \in Workers :
                   (worker'[w].pc = "process" /\ worker[w].pc # "process"
                        /\ worker'[w].job.job_id = j) =>
                      Occurrences(pending', j) = Occurrences(pending, j) - 1]_vars

\* process_job runs for the third time on a job.
C33_Witness ==
    \E w \in Workers :
        /\ worker[w].pc = "process"
        /\ worker[w].job.retry_count = DefaultMaxRetries
        /\ jobData[worker[w].job.job_id].retry_count = DefaultMaxRetries

\* C34: a job_id is in the processing set only while the persisted status of
\* the job is processing; after a retry its id is not in the pending list and
\* in the processing set at once.
C34_ProcessingSetTracksStatus ==
    \A j \in processing :
        /\ jobData[j].status = "processing"
        /\ Occurrences(pending, j) = 0

\* The part that holds: a job completed or failed by the worker has left the
\* processing set.
C34_TerminalLeavesProcessing ==
    \A j \in JobIds : (jobData[j].completed /\ WorkerDone(j)) => j \notin processing

\* A job was retried and waits in the pending list.
C34_Reached ==
    \E j \in JobIds :
        /\ jobData[j].status = "pending" /\ jobData[j].retry_count > 0
        /\ Occurrences(pending, j) = 1

\* C35: whenever the persisted status of a job is terminal it agrees with the
\* status of the Result stored under the same job_id: success with a SUCCESS
\* Result, failed with a FAILED Result.
C35_TerminalAgreesWithResult ==
    \A j \in JobIds :
        /\ jobData[j].status = "success" => GetJobResult(j).status = "SUCCESS"
        /\ jobData[j].status = "failed" => GetJobResult(j).status = "FAILED"

\* The part that holds: a job failed by the except block of process_job has,
\* once the block is through, a FAILED Result.
C35_RaisedRunAgrees ==
    \A j \in JobIds :
        (/\ jobData[j].status = "failed" /\ WorkerDone(j)
         /\ jobData[j].error_message = "Job processing failed") =>
            GetJobResult(j).status = "FAILED"

\* Jobs ended both ways with a Result of the same status.
C35_Reached ==
    /\ \E j \in JobIds :
          jobData[j].status = "success" /\ GetJobResult(j).status = "SUCCESS"
    /\ \E j \in JobIds :
          jobData[j].status = "failed" /\ GetJobResult(j).status = "FAILED"

\* C36: once the persisted status of a job is success or failed its job_id is
\* in neither the pending list nor the processing set, no dequeue returns it
\* again, and no later operation changes its record.
C36_TerminalIsFinal ==
    /\ [](\A j \in JobIds : jobData[j].status \in Terminal =>
             Occurrences(pending, j) = 0 /\ j \notin processing)
    /\ [][\A j \in JobIds : jobData[j].status \in Terminal =>
             /\ jobData'[j] = jobData[j]
             /\ Occurrences(pending', j) = 0 /\ j \notin processing'
             /\ \A w \in Workers :
                   (worker'[w].pc = "process" /\ worker[w].pc # "process") =>
                       worker'[w].job.job_id # j]_vars

\* A job ended after a retry, and a worker runs another job after it.
C36_Witness ==
    \E j \in JobIds :
        /\ jobData[j].status \in Terminal /\ jobData[j].retry_count > 0
        /\ \E w \in Workers : worker[w].pc \in {"process", "deliver", "finish"}
                                 /\ worker[w].job.job_id # j

\* C37: one call of start_analysis never both stores a Result by the fast
\* path and enqueues a job for the same job_id: a job_id with a Result of the
\* fast path has no job record and is not in the pending list, and is
\* answered complete or failed.
C37_FastPathOrQueue ==
    \A j \in JobIds :
        GetJobResult(j).reason = "sync" =>
            /\ jobData[j] = NoJob
            /\ Occurrences(pending, j) = 0
            /\ handler[j] \in {"complete", "failed"}

\* One request was answered by the fast path, another was given to the queue.
C37_Witness ==
    \E j, k \in JobIds :
        /\ GetJobResult(j).reason = "sync" /\ handler[j] = "complete"
        /\ handler[k] = "processing" /\ jobData[k] # NoJob
        /\ jobData[k].request_data.webhook_url = ""

\* C38: while the workers keep running and every store, engine and webhook
\* call returns, every job that was enqueued is eventually dequeued and
\* eventually reaches the terminal status success or failed.
C38_EveryJobEnds ==
    \A j \in JobIds :
        /\ (Occurrences(pending, j) > 0) ~> (\E w \in Workers : Holds(w, j))
        /\ (Occurrences(pending, j) > 0) ~> (jobData[j].status \in Terminal)

\* A job went through the queue three times and ended.
C38_Witness ==
    \E j \in JobIds :
        /\ jobData[j].status \in Terminal
        /\ jobData[j].retry_count = DefaultMaxRetries
        /\ jobData[j].started /\ jobData[j].completed

\* C39: over the whole lifetime of a job, its retries included, each
\* configured push target accepts at most one completion notification for the
\* job_id.
C39_AtMostOneNotification ==
    \A j \in JobIds : notified[j].coda <= 1 /\ notified[j].legacy <= 1

\* The part that holds: a job that was never retried has notified each target
\* at most once, and a target that is not configured is never notified.
C39_OncePerRun ==
    \A j \in JobIds :
        /\ jobData[j].retry_count = 0 =>
              notified[j].coda <= 1 /\ notified[j].legacy <= 1
        /\ ~coda => notified[j].coda = 0

\* A job was completed with one notification accepted by each target.
C39_Reached ==
    \E j \in JobIds :
        /\ jobData[j].status = "success" /\ jobData[j].completed
        /\ notified[j].coda = 1 /\ notified[j].legacy = 1

\* Every process_chunk call of the run returned a text.
AllCallsReturned == \A k \in 1..Len(penv.chunks) : penv.chunks[k].ok

\* C40: process_job takes the processing-error path only if the engine call
\* of at least one chunk failed; a run in which every engine call returned a
\* text reaches the quality gate.
C40_ErrorPathOnlyOnFailure ==
    pout # NoOutput =>
        /\ pout.final_result.reason = "processing_error" => ~AllCallsReturned
        /\ AllCallsReturned => pout.gate_called

\* The part that holds: a run with a failed engine call takes the
\* processing-error path, and a run in which no text looks like an error
\* reaches the quality gate.
C40_FailureTakesErrorPath ==
    pout # NoOutput =>
        /\ ~AllCallsReturned => pout.final_result.reason = "processing_error"
        /\ (\A k \in 1..Len(penv.chunks) : penv.chunks[k].text = TextAnalysis) =>
              pout.gate_called

\* A run of MaxChunks chunks in which every call returned and the gate was
\* called.
C40_Reached ==
    /\ pout # NoOutput /\ AllCallsReturned /\ pout.gate_called
    /\ Len(penv.chunks) = MaxChunks

====
